---- MODULE Spec2Model ----
(***************************************************************************)
(* BulkStringRequest (bulk_string_request.go): a mutable request builder    *)
(* whose Source method encodes the request as two lines of JSON text and    *)
(* memoizes them in r.source.                                               *)
(*                                                                          *)
(* Text is modelled byte by byte: a Go string is a sequence of one-         *)
(* character strings, so that quoting, escaping, integer formatting and     *)
(* the order of object keys are all part of what is checked.  A nil slice   *)
(* or nil pointer is the empty sequence <<>>, a non-nil pointer to v is     *)
(* <<v>>.                                                                   *)
(***************************************************************************)
EXTENDS Integers, Sequences, FiniteSets, TLC

VARIABLES index, typ, id, opType, routing, parent, version, versionType,
          doc, pipeline, retryOnConflict, ttl, source,
          last, args, ret, marshalCalls, calls, encodes, crashed

fields == <<index, typ, id, opType, routing, parent, version, versionType,
            doc, pipeline, retryOnConflict, ttl>>

vars == <<index, typ, id, opType, routing, parent, version, versionType,
          doc, pipeline, retryOnConflict, ttl, source,
          last, args, ret, marshalCalls, calls, encodes, crashed>>

(***************************************************************************)
(* Bounds and input sets                                                    *)
(***************************************************************************)

\* Number of setter calls made on one request in a behaviour of Spec.
MaxCalls == 2

\* Number of Source and String calls made between two setter calls.
MaxEncodes == 2

\* String arguments handed to the string setters: the empty string, a plain
\* one, and one made of a backslash and a double quote (both are escaped by
\* the JSON encoder).
StrVals == { <<>>, <<"a">>, <<"\\", "\"">> }

OpIndex == <<"i", "n", "d", "e", "x">>
OpCreate == <<"c", "r", "e", "a", "t", "e">>

\* Arguments handed to OpType.
OpTypeVals == { OpIndex, OpCreate, <<>>, <<"a", "\"">> }

\* Arguments handed to Version (int64) and RetryOnConflict (int).
VersionVals == { -3, 0, 1, 12 }
RetryVals == { -1, 0, 42 }

(***************************************************************************)
(* encoding/json as used by Source                                          *)
(***************************************************************************)

Quote == "\""
Backslash == "\\"

\* The bytes that occur in the modelled text, in ascending byte order.
AsciiOrder == << "\"", ",", "-", "0", "1", "2", "3", "4", "5", "6", "7", "8",
                 "9", ":", "\\", "_", "a", "b", "c", "d", "e", "f", "g", "h",
                 "i", "j", "k", "l", "m", "n", "o", "p", "q", "r", "s", "t",
                 "u", "v", "w", "x", "y", "z", "{", "}" >>

ByteOf(c) == CHOOSE i \in 1..Len(AsciiOrder) : AsciiOrder[i] = c

\* Go's < on strings: byte-wise lexicographic, a proper prefix is smaller.
RECURSIVE StringLess(_, _)
StringLess(a, b) ==
    IF b = <<>> THEN FALSE
    ELSE IF a = <<>> THEN TRUE
    ELSE IF Head(a) = Head(b) THEN StringLess(Tail(a), Tail(b))
    ELSE ByteOf(Head(a)) < ByteOf(Head(b))

\* Faulty variant of EscapeChar: nothing is escaped.
EscapeNothing(c) == <<c>>

\* json.Marshal of a string: quoted, with " and \ escaped by a backslash.
EscapeChar(c) ==
    IF c = Quote THEN <<Backslash, Quote>>
    ELSE IF c = Backslash THEN <<Backslash, Backslash>>
    ELSE <<c>>

RECURSIVE EscapeString(_)
EscapeString(s) ==
    IF s = <<>> THEN <<>> ELSE EscapeChar(Head(s)) \o EscapeString(Tail(s))

MarshalString(s) == <<Quote>> \o EscapeString(s) \o <<Quote>>

\* json.Marshal of an integer: decimal digits, a leading minus sign.
DigitChar(d) == AsciiOrder[d + 4]

RECURSIVE Digits(_)
Digits(n) ==
    IF n < 10 THEN <<DigitChar(n)>>
    ELSE Digits(n \div 10) \o <<DigitChar(n % 10)>>

MarshalInt(n) == IF n < 0 THEN <<"-">> \o Digits(0 - n) ELSE Digits(n)

\* A Go value held in an interface{}: a string, an integer or a
\* map[string]interface{} (a function from keys to such values).
StrVal(s) == [t |-> "string", v |-> s]
IntVal(n) == [t |-> "int", v |-> n]
MapVal(m) == [t |-> "map", v |-> m]

EmptyMap == [k \in {} |-> 0]

\* m[k] = v on a Go map.
MapSet(m, k, v) ==
    [x \in DOMAIN m \cup {k} |-> IF x = k THEN v ELSE m[x]]

\* Faulty variant of SortedKeys: the keys in descending order.
RECURSIVE InsertDescending(_, _), KeysDescending(_)
InsertDescending(k, q) ==
    IF q = <<>> THEN <<k>>
    ELSE IF StringLess(Head(q), k) THEN <<k>> \o q
    ELSE <<Head(q)>> \o InsertDescending(k, Tail(q))

KeysDescending(S) ==
    IF S = {} THEN <<>>
    ELSE LET k == CHOOSE x \in S : TRUE
         IN  InsertDescending(k, KeysDescending(S \ {k}))

\* json.Marshal sorts the keys of a map before it emits them: the keys of
\* S in ascending order of StringLess.
RECURSIVE Insert(_, _), SortedKeys(_)
Insert(k, q) ==
    IF q = <<>> THEN <<k>>
    ELSE IF StringLess(k, Head(q)) THEN <<k>> \o q
    ELSE <<Head(q)>> \o Insert(k, Tail(q))

SortedKeys(S) ==
    IF S = {} THEN <<>>
    ELSE LET k == CHOOSE x \in S : TRUE
         IN  Insert(k, SortedKeys(S \ {k}))

RECURSIVE MarshalValue(_), MarshalMembers(_, _)
MarshalMembers(m, keys) ==
    IF keys = <<>> THEN <<>>
    ELSE MarshalString(Head(keys)) \o <<":">> \o MarshalValue(m[Head(keys)])
         \o (IF Len(keys) > 1 THEN <<",">> ELSE <<>>)
         \o MarshalMembers(m, Tail(keys))

MarshalValue(x) ==
    IF x.t = "string" THEN MarshalString(x.v)
    ELSE IF x.t = "int" THEN MarshalInt(x.v)
    ELSE <<"{">> \o MarshalMembers(x.v, SortedKeys(DOMAIN x.v)) \o <<"}">>

\* json.Marshal(v): the text and a nil error (<<>>), or no text and the
\* error; a channel is a value the encoder does not support.
UnsupportedType == <<"json: unsupported type: chan int">>

Marshal(x) ==
    IF x.t = "chan" THEN [out |-> <<>>, err |-> UnsupportedType]
    ELSE [out |-> MarshalValue(x), err |-> <<>>]

(***************************************************************************)
(* Document payloads: what Doc is given as its interface{} argument         *)
(***************************************************************************)

NilDoc == [t |-> "nil", v |-> <<>>]
ChanDoc == [t |-> "chan", v |-> <<>>]
RawMessageDoc(b) == [t |-> "RawMessage", v |-> b]
RawMessagePtrDoc(p) == [t |-> "*RawMessage", v |-> p]
StringDoc(s) == StrVal(s)
StringPtrDoc(p) == [t |-> "*string", v |-> p]

EmptyObject == <<"{", "}">>

\* Pre-serialized texts: an object, the empty text, text that is no JSON.
RawTexts == { EmptyObject, <<>>, <<"a", "\"">> }

\* Structured documents: map[string]interface{}{"b": "a\"", "a": 12} and
\* map[string]interface{}{}.
MapDoc == MapVal(MapSet(MapSet(EmptyMap, <<"b">>, StrVal(<<"a", "\"">>)),
                        <<"a">>, IntVal(12)))
EmptyMapDoc == MapVal(EmptyMap)

\* The text {"a":12,"b":"a\""}, handed to Doc already serialized.
MapText == << "{", "\"", "a", "\"", ":", "1", "2", ",", "\"", "b", "\"", ":",
              "\"", "a", "\\", "\"", "\"", "}" >>

\* Documents handed to Doc: nil, structured values, raw bytes and raw
\* strings, and pointers to raw bytes and strings, nil pointers included.
DocVals ==
    {NilDoc, ChanDoc, MapDoc, EmptyMapDoc}
    \cup {RawMessageDoc(b) : b \in RawTexts \cup {MapText}}
    \cup {StringDoc(s) : s \in RawTexts \cup {MapText}}
    \cup {RawMessagePtrDoc(<<>>)} \cup {RawMessagePtrDoc(<<b>>) : b \in RawTexts}
    \cup {StringPtrDoc(<<>>)} \cup {StringPtrDoc(<<s>>) : s \in RawTexts}

(***************************************************************************)
(* Source: the encoder                                                      *)
(***************************************************************************)

KIndex == <<"_", "i", "n", "d", "e", "x">>
KType == <<"_", "t", "y", "p", "e">>
KId == <<"_", "i", "d">>
KRouting == <<"_", "r", "o", "u", "t", "i", "n", "g">>
KParent == <<"_", "p", "a", "r", "e", "n", "t">>
KVersion == <<"_", "v", "e", "r", "s", "i", "o", "n">>
KVersionType == <<"_", "v", "e", "r", "s", "i", "o", "n", "_", "t", "y", "p", "e">>
KRetryOnConflict == <<"_", "r", "e", "t", "r", "y", "_", "o", "n", "_",
                      "c", "o", "n", "f", "l", "i", "c", "t">>
KTtl == <<"_", "t", "t", "l">>
KPipeline == <<"p", "i", "p", "e", "l", "i", "n", "e">>

\* if cond { m[k] = v }
SetIf(cond, m, k, v) == IF cond THEN MapSet(m, k, v) ELSE m

\* Faulty variant of indexCommand: _type is set whether or not r.typ is empty.
indexCommandTypeAlways ==
    LET c1 == SetIf(index # <<>>, EmptyMap, KIndex, StrVal(index))
        c2 == SetIf(TRUE, c1, KType, StrVal(typ))
        c3 == SetIf(id # <<>>, c2, KId, StrVal(id))
        c4 == SetIf(routing # <<>>, c3, KRouting, StrVal(routing))
        c5 == SetIf(parent # <<>>, c4, KParent, StrVal(parent))
        c6 == SetIf(version > 0, c5, KVersion, IntVal(version))
        c7 == SetIf(versionType # <<>>, c6, KVersionType, StrVal(versionType))
        c8 == SetIf(retryOnConflict # <<>>, c7, KRetryOnConflict,
                    IntVal(retryOnConflict[1]))
        c9 == SetIf(ttl # <<>>, c8, KTtl, StrVal(ttl))
    IN  SetIf(pipeline # <<>>, c9, KPipeline, StrVal(pipeline))

\* Faulty variant of indexCommand: a retryOnConflict of 0 counts as not set.
indexCommandRetrySentinel ==
    LET c1 == SetIf(index # <<>>, EmptyMap, KIndex, StrVal(index))
        c2 == SetIf(typ # <<>>, c1, KType, StrVal(typ))
        c3 == SetIf(id # <<>>, c2, KId, StrVal(id))
        c4 == SetIf(routing # <<>>, c3, KRouting, StrVal(routing))
        c5 == SetIf(parent # <<>>, c4, KParent, StrVal(parent))
        c6 == SetIf(version > 0, c5, KVersion, IntVal(version))
        c7 == SetIf(versionType # <<>>, c6, KVersionType, StrVal(versionType))
        c8 == SetIf(retryOnConflict # <<>> /\ retryOnConflict # <<0>>, c7, KRetryOnConflict,
                    IntVal(retryOnConflict[1]))
        c9 == SetIf(ttl # <<>>, c8, KTtl, StrVal(ttl))
    IN  SetIf(pipeline # <<>>, c9, KPipeline, StrVal(pipeline))

\* Faulty variant of indexCommand: _version is set for every version but 0.
indexCommandVersionNonZero ==
    LET c1 == SetIf(index # <<>>, EmptyMap, KIndex, StrVal(index))
        c2 == SetIf(typ # <<>>, c1, KType, StrVal(typ))
        c3 == SetIf(id # <<>>, c2, KId, StrVal(id))
        c4 == SetIf(routing # <<>>, c3, KRouting, StrVal(routing))
        c5 == SetIf(parent # <<>>, c4, KParent, StrVal(parent))
        c6 == SetIf(version # 0, c5, KVersion, IntVal(version))
        c7 == SetIf(versionType # <<>>, c6, KVersionType, StrVal(versionType))
        c8 == SetIf(retryOnConflict # <<>>, c7, KRetryOnConflict,
                    IntVal(retryOnConflict[1]))
        c9 == SetIf(ttl # <<>>, c8, KTtl, StrVal(ttl))
    IN  SetIf(pipeline # <<>>, c9, KPipeline, StrVal(pipeline))

\* indexCommand after the ten conditional assignments.
indexCommand ==
    LET c1 == SetIf(index # <<>>, EmptyMap, KIndex, StrVal(index))
        c2 == SetIf(typ # <<>>, c1, KType, StrVal(typ))
        c3 == SetIf(id # <<>>, c2, KId, StrVal(id))
        c4 == SetIf(routing # <<>>, c3, KRouting, StrVal(routing))
        c5 == SetIf(parent # <<>>, c4, KParent, StrVal(parent))
        c6 == SetIf(version > 0, c5, KVersion, IntVal(version))
        c7 == SetIf(versionType # <<>>, c6, KVersionType, StrVal(versionType))
        c8 == SetIf(retryOnConflict # <<>>, c7, KRetryOnConflict,
                    IntVal(retryOnConflict[1]))
        c9 == SetIf(ttl # <<>>, c8, KTtl, StrVal(ttl))
    IN  SetIf(pipeline # <<>>, c9, KPipeline, StrVal(pipeline))

\* Faulty variant of command: the top-level key is always "index".
commandIndexKey == MapSet(EmptyMap, OpIndex, MapVal(indexCommand))

\* command[r.opType] = indexCommand
command == MapSet(EmptyMap, opType, MapVal(indexCommand))

\* Faulty variant of DocLine: a nil document is marshalled like any other value.
DocLineNull ==
    IF doc.t # "nil"
    THEN IF doc.t = "RawMessage"
         THEN [kind |-> "ok", out |-> doc.v, err |-> <<>>, marshals |-> 0]
         ELSE IF doc.t \in {"*RawMessage", "*string"}
         THEN IF doc.v = <<>>
              THEN [kind |-> "panic", out |-> <<>>, err |-> <<>>, marshals |-> 0]
              ELSE [kind |-> "ok", out |-> doc.v[1], err |-> <<>>, marshals |-> 0]
         ELSE IF doc.t = "string"
         THEN [kind |-> "ok", out |-> doc.v, err |-> <<>>, marshals |-> 0]
         ELSE LET body == Marshal(doc)
              IN  IF body.err # <<>>
                  THEN [kind |-> "error", out |-> <<>>, err |-> body.err,
                        marshals |-> 1]
                  ELSE [kind |-> "ok", out |-> body.out, err |-> <<>>,
                        marshals |-> 1]
    ELSE [kind |-> "ok", out |-> <<"n", "u", "l", "l">>, err |-> <<>>,
          marshals |-> 1]

\* Faulty variant of DocLine: no case for string, which json.Marshal quotes.
DocLineStringMarshalled ==
    IF doc.t # "nil"
    THEN IF doc.t = "RawMessage"
         THEN [kind |-> "ok", out |-> doc.v, err |-> <<>>, marshals |-> 0]
         ELSE IF doc.t \in {"*RawMessage", "*string"}
         THEN IF doc.v = <<>>
              THEN [kind |-> "panic", out |-> <<>>, err |-> <<>>, marshals |-> 0]
              ELSE [kind |-> "ok", out |-> doc.v[1], err |-> <<>>, marshals |-> 0]
         ELSE LET body == Marshal(doc)
              IN  IF body.err # <<>>
                  THEN [kind |-> "error", out |-> <<>>, err |-> body.err,
                        marshals |-> 1]
                  ELSE [kind |-> "ok", out |-> body.out, err |-> <<>>,
                        marshals |-> 1]
    ELSE [kind |-> "ok", out |-> EmptyObject, err |-> <<>>, marshals |-> 0]

\* lines[1]: the text, or the error of json.Marshal(r.doc), or the panic of
\* dereferencing a nil *json.RawMessage or *string; marshals counts the
\* calls of json.Marshal.
DocLine ==
    IF doc.t # "nil"
    THEN IF doc.t = "RawMessage"
         THEN [kind |-> "ok", out |-> doc.v, err |-> <<>>, marshals |-> 0]
         ELSE IF doc.t \in {"*RawMessage", "*string"}
         THEN IF doc.v = <<>>
              THEN [kind |-> "panic", out |-> <<>>, err |-> <<>>, marshals |-> 0]
              ELSE [kind |-> "ok", out |-> doc.v[1], err |-> <<>>, marshals |-> 0]
         ELSE IF doc.t = "string"
         THEN [kind |-> "ok", out |-> doc.v, err |-> <<>>, marshals |-> 0]
         ELSE LET body == Marshal(doc)
              IN  IF body.err # <<>>
                  THEN [kind |-> "error", out |-> <<>>, err |-> body.err,
                        marshals |-> 1]
                  ELSE [kind |-> "ok", out |-> body.out, err |-> <<>>,
                        marshals |-> 1]
    ELSE [kind |-> "ok", out |-> EmptyObject, err |-> <<>>, marshals |-> 0]

\* Lines 159-221 of Source, the computation behind the cache: the two
\* lines (kind "lines"), or the error (kind "error"), or the panic (kind
\* "panic": the call does not return); marshals counts the json.Marshal
\* calls made.
FreshLines ==
    LET line == Marshal(MapVal(command))
        second == DocLine
    IN  IF line.err # <<>>
        THEN [kind |-> "error", lines |-> <<>>, err |-> line.err, marshals |-> 1]
        ELSE IF second.kind = "ok"
        THEN [kind |-> "lines", lines |-> <<line.out, second.out>>,
              err |-> <<>>, marshals |-> 1 + second.marshals]
        ELSE [kind |-> second.kind, lines |-> <<>>, err |-> second.err,
              marshals |-> 1 + second.marshals]

\* Faulty variant of SourceOutcome: the cache is never consulted.
SourceAlwaysComputes ==
    LET c == FreshLines
    IN  [kind |-> c.kind, lines |-> c.lines, err |-> c.err,
         source |-> IF c.kind = "lines" THEN c.lines ELSE source,
         marshals |-> c.marshals]

\* Faulty variant of SourceOutcome: r.source is assigned before the
\* document is marshalled, so a failed call leaves a cache behind.
SourceMemoizesFailure ==
    IF source # <<>>
    THEN [kind |-> "lines", lines |-> source, err |-> <<>>,
          source |-> source, marshals |-> 0]
    ELSE LET c == FreshLines
         IN  [kind |-> c.kind, lines |-> c.lines, err |-> c.err,
              source |-> IF c.kind = "lines" THEN c.lines
                         ELSE IF c.kind = "error"
                         THEN <<Marshal(MapVal(command)).out, <<>>>>
                         ELSE source,
              marshals |-> c.marshals]

\* What one call of Source does in the current state: what it returns, the
\* value of r.source after it, and the number of json.Marshal calls.
SourceOutcome ==
    IF source # <<>>
    THEN [kind |-> "lines", lines |-> source, err |-> <<>>,
          source |-> source, marshals |-> 0]
    ELSE LET c == FreshLines
         IN  [kind |-> c.kind, lines |-> c.lines, err |-> c.err,
              source |-> IF c.kind = "lines" THEN c.lines ELSE source,
              marshals |-> c.marshals]

(***************************************************************************)
(* The request and the calls made on it                                     *)
(***************************************************************************)

\* The address of the request, which every setter returns.
Self == "r"

NoResult == [kind |-> "none", ref |-> "", lines |-> <<>>, err |-> <<>>, str |-> <<>>]

\* The twelve setters.
Setters == {"Index", "Type", "Id", "OpType", "Routing", "Parent", "Version",
            "VersionType", "Doc", "RetryOnConflict", "TTL", "Pipeline"}

\* NewBulkStringRequest.  last names the most recent call, args[s] holds
\* the argument of the most recent call of setter s (<<>>: never called),
\* calls counts the setter calls and encodes the Source and String calls
\* since the last of them.
Init ==
    /\ index = <<>> /\ typ = <<>> /\ id = <<>>
    /\ opType = OpIndex
    /\ routing = <<>> /\ parent = <<>>
    /\ version = 0
    /\ versionType = <<>>
    /\ doc = NilDoc
    /\ pipeline = <<>>
    /\ retryOnConflict = <<>>
    /\ ttl = <<>>
    /\ source = <<>>
    /\ last = "NewBulkStringRequest"
    /\ args = [s \in Setters |-> <<>>]
    /\ ret = [NoResult EXCEPT !.kind = "request", !.ref = Self]
    /\ marshalCalls = 0
    /\ calls = 0
    /\ encodes = 0
    /\ crashed = FALSE

\* The part every setter shares: r.source = nil; return r.
SetterReturns(op, arg) ==
    /\ ~crashed
    /\ calls < MaxCalls
    /\ source' = <<>>
    /\ ret' = [NoResult EXCEPT !.kind = "request", !.ref = Self]
    /\ last' = op
    /\ args' = [args EXCEPT ![op] = <<arg>>]
    /\ marshalCalls' = 0
    /\ calls' = calls + 1
    /\ encodes' = 0
    /\ crashed' = crashed

\* Faulty variant of Index: the cache is kept.
IndexKeepsCache(v) ==
    /\ ~crashed
    /\ calls < MaxCalls
    /\ index' = v
    /\ ret' = [NoResult EXCEPT !.kind = "request", !.ref = Self]
    /\ last' = "Index"
    /\ args' = [args EXCEPT !["Index"] = <<v>>]
    /\ marshalCalls' = 0
    /\ calls' = calls + 1
    /\ encodes' = 0
    /\ UNCHANGED <<typ, id, opType, routing, parent, version, versionType,
                   doc, pipeline, retryOnConflict, ttl, source, crashed>>

Index(v) ==
    /\ index' = v
    /\ SetterReturns("Index", v)
    /\ UNCHANGED <<typ, id, opType, routing, parent, version, versionType,
                   doc, pipeline, retryOnConflict, ttl>>

Type(v) ==
    /\ typ' = v
    /\ SetterReturns("Type", v)
    /\ UNCHANGED <<index, id, opType, routing, parent, version, versionType,
                   doc, pipeline, retryOnConflict, ttl>>

Id(v) ==
    /\ id' = v
    /\ SetterReturns("Id", v)
    /\ UNCHANGED <<index, typ, opType, routing, parent, version, versionType,
                   doc, pipeline, retryOnConflict, ttl>>

\* Faulty variant of OpType: an empty argument is not stored.
OpTypeIgnoresEmpty(v) ==
    /\ opType' = (IF v = <<>> THEN opType ELSE v)
    /\ SetterReturns("OpType", v)
    /\ UNCHANGED <<index, typ, id, routing, parent, version, versionType,
                   doc, pipeline, retryOnConflict, ttl>>

OpType(v) ==
    /\ opType' = v
    /\ SetterReturns("OpType", v)
    /\ UNCHANGED <<index, typ, id, routing, parent, version, versionType,
                   doc, pipeline, retryOnConflict, ttl>>

\* Faulty variant of Routing: a routing value already set is kept.
RoutingKeepsFirst(v) ==
    /\ routing' = (IF routing = <<>> THEN v ELSE routing)
    /\ SetterReturns("Routing", v)
    /\ UNCHANGED <<index, typ, id, opType, parent, version, versionType,
                   doc, pipeline, retryOnConflict, ttl>>

Routing(v) ==
    /\ routing' = v
    /\ SetterReturns("Routing", v)
    /\ UNCHANGED <<index, typ, id, opType, parent, version, versionType,
                   doc, pipeline, retryOnConflict, ttl>>

Parent(v) ==
    /\ parent' = v
    /\ SetterReturns("Parent", v)
    /\ UNCHANGED <<index, typ, id, opType, routing, version, versionType,
                   doc, pipeline, retryOnConflict, ttl>>

Version(v) ==
    /\ version' = v
    /\ SetterReturns("Version", v)
    /\ UNCHANGED <<index, typ, id, opType, routing, parent, versionType,
                   doc, pipeline, retryOnConflict, ttl>>

VersionType(v) ==
    /\ versionType' = v
    /\ SetterReturns("VersionType", v)
    /\ UNCHANGED <<index, typ, id, opType, routing, parent, version,
                   doc, pipeline, retryOnConflict, ttl>>

\* Faulty variant of Doc: the cache is cleared only when the document changes.
DocClearsCacheIfChanged(v) ==
    /\ ~crashed
    /\ calls < MaxCalls
    /\ doc' = v
    /\ source' = (IF doc.t = v.t /\ doc.v = v.v THEN source ELSE <<>>)
    /\ ret' = [NoResult EXCEPT !.kind = "request", !.ref = Self]
    /\ last' = "Doc"
    /\ args' = [args EXCEPT !["Doc"] = <<v>>]
    /\ marshalCalls' = 0
    /\ calls' = calls + 1
    /\ encodes' = 0
    /\ UNCHANGED <<index, typ, id, opType, routing, parent, version,
                   versionType, pipeline, retryOnConflict, ttl, crashed>>

Doc(v) ==
    /\ doc' = v
    /\ SetterReturns("Doc", v)
    /\ UNCHANGED <<index, typ, id, opType, routing, parent, version,
                   versionType, pipeline, retryOnConflict, ttl>>

\* Faulty variant of RetryOnConflict: a negative argument unsets the field.
RetryOnConflictNegativeUnsets(v) ==
    /\ retryOnConflict' = (IF v < 0 THEN <<>> ELSE <<v>>)
    /\ SetterReturns("RetryOnConflict", v)
    /\ UNCHANGED <<index, typ, id, opType, routing, parent, version,
                   versionType, doc, pipeline, ttl>>

\* r.retryOnConflict = &retryOnConflict: a pointer to the argument's copy.
RetryOnConflict(v) ==
    /\ retryOnConflict' = <<v>>
    /\ SetterReturns("RetryOnConflict", v)
    /\ UNCHANGED <<index, typ, id, opType, routing, parent, version,
                   versionType, doc, pipeline, ttl>>

TTL(v) ==
    /\ ttl' = v
    /\ SetterReturns("TTL", v)
    /\ UNCHANGED <<index, typ, id, opType, routing, parent, version,
                   versionType, doc, pipeline, retryOnConflict>>

Pipeline(v) ==
    /\ pipeline' = v
    /\ SetterReturns("Pipeline", v)
    /\ UNCHANGED <<index, typ, id, opType, routing, parent, version,
                   versionType, doc, retryOnConflict, ttl>>

Source ==
    /\ ~crashed
    /\ encodes < MaxEncodes
    /\ encodes' = encodes + 1
    /\ LET o == SourceOutcome
       IN  /\ source' = o.source
           /\ ret' = [NoResult EXCEPT !.kind = o.kind, !.lines = o.lines,
                                      !.err = o.err]
           /\ marshalCalls' = o.marshals
           /\ crashed' = (o.kind = "panic")
    /\ last' = "Source"
    /\ UNCHANGED <<fields, args, calls>>

\* lines, err := r.Source(); fmt.Sprintf("error: %v", err) or
\* strings.Join(lines, "\n")
String ==
    /\ ~crashed
    /\ encodes < MaxEncodes
    /\ encodes' = encodes + 1
    /\ LET o == SourceOutcome
       IN  /\ source' = o.source
           /\ ret' = IF o.kind = "panic" THEN [NoResult EXCEPT !.kind = "panic"]
                     ELSE IF o.kind = "error"
                     THEN [NoResult EXCEPT !.kind = "string",
                                           !.str = <<"error: ">> \o o.err]
                     ELSE [NoResult EXCEPT !.kind = "string",
                                           !.str = o.lines[1] \o <<"\n">> \o o.lines[2]]
           /\ marshalCalls' = o.marshals
           /\ crashed' = (o.kind = "panic")
    /\ last' = "String"
    /\ UNCHANGED <<fields, args, calls>>

Next ==
    \/ \E v \in StrVals : Index(v)
    \/ \E v \in StrVals : Type(v)
    \/ \E v \in StrVals : Id(v)
    \/ \E v \in OpTypeVals : OpType(v)
    \/ \E v \in StrVals : Routing(v)
    \/ \E v \in StrVals : Parent(v)
    \/ \E v \in VersionVals : Version(v)
    \/ \E v \in StrVals : VersionType(v)
    \/ \E v \in DocVals : Doc(v)
    \/ \E v \in RetryVals : RetryOnConflict(v)
    \/ \E v \in StrVals : TTL(v)
    \/ \E v \in StrVals : Pipeline(v)
    \/ Source
    \/ String

Spec == Init /\ [][Next]_vars

(***************************************************************************)
(* The caller and the slice it was handed.  Source returns r.source itself  *)
(* (line 156) or stores the very slice it returns (lines 223-224), so the   *)
(* pair the caller holds right after a successful Source shares its backing *)
(* array with the cache: an assignment to one of its elements is an         *)
(* assignment to the same element of r.source.                              *)
(***************************************************************************)

\* Texts the caller writes into a returned pair.
CallerTexts == { <<"x">> }

\* lines[i-1] = text by the caller, on the pair the last Source returned.
Overwrite(i, text) ==
    /\ ~crashed
    /\ last \in {"Source", "Overwrite"}
    /\ ret.kind = "lines"
    /\ ret.lines[i] # text
    /\ ret' = [ret EXCEPT !.lines[i] = text]
    /\ source' = [source EXCEPT ![i] = text]
    /\ last' = "Overwrite"
    /\ marshalCalls' = 0
    /\ UNCHANGED <<fields, args, calls, encodes, crashed>>

NextCaller ==
    \/ Next
    \/ \E i \in 1..2, text \in CallerTexts : Overwrite(i, text)

SpecCaller == Init /\ [][NextCaller]_vars

(***************************************************************************)
(* The encoder on its own: a request in any configuration the setters can   *)
(* leave it in, on which Source and String are then called.                 *)
(***************************************************************************)

\* Field values of the configurations that are encoded.
EncStrVals == { <<>>, <<"a", "\"">> }
EncOpTypeVals == { OpIndex, <<"a", "\"">> }
EncVersionVals == { -3, 0, 12 }
EncRetryVals == { <<>>, <<0>>, <<42>> }
EncDocVals == { NilDoc, MapDoc }

\* The request after each setter was called once with the value of its
\* field (RetryOnConflict not at all when the pointer is nil).
InitEnc ==
    /\ index \in EncStrVals /\ typ \in EncStrVals /\ id \in EncStrVals
    /\ opType \in EncOpTypeVals
    /\ routing \in EncStrVals /\ parent \in EncStrVals
    /\ version \in EncVersionVals
    /\ versionType \in EncStrVals
    /\ doc \in EncDocVals
    /\ pipeline \in EncStrVals
    /\ retryOnConflict \in EncRetryVals
    /\ ttl \in EncStrVals
    /\ source = <<>>
    /\ last = "Pipeline"
    /\ args = [Index |-> <<index>>, Type |-> <<typ>>, Id |-> <<id>>,
               OpType |-> <<opType>>, Routing |-> <<routing>>,
               Parent |-> <<parent>>, Version |-> <<version>>,
               VersionType |-> <<versionType>>, Doc |-> <<doc>>,
               RetryOnConflict |-> retryOnConflict, TTL |-> <<ttl>>,
               Pipeline |-> <<pipeline>>]
    /\ ret = [NoResult EXCEPT !.kind = "request", !.ref = Self]
    /\ marshalCalls = 0
    /\ calls = 0
    /\ encodes = 0
    /\ crashed = FALSE

NextEnc == Source \/ String

SpecEnc == InitEnc /\ [][NextEnc]_vars

(***************************************************************************)
(* Reading a line back: the JSON text as a consumer of the bulk body parses *)
(* it.  An object is read as the sequence of its members, in the order in   *)
(* which they stand in the text.                                            *)
(***************************************************************************)

NoParse == [ok |-> FALSE, val |-> <<>>, rest |-> <<>>]

Decimal == <<"0", "1", "2", "3", "4", "5", "6", "7", "8", "9">>
IsDigit(c) == \E i \in 1..Len(Decimal) : Decimal[i] = c
DigitValue(c) == (CHOOSE i \in 1..Len(Decimal) : Decimal[i] = c) - 1

\* The characters of a string literal after its opening quote.
RECURSIVE ParseChars(_, _)
ParseChars(s, acc) ==
    IF s = <<>> THEN NoParse
    ELSE IF Head(s) = "\"" THEN [ok |-> TRUE, val |-> acc, rest |-> Tail(s)]
    ELSE IF Head(s) = "\\"
    THEN IF Len(s) < 2 \/ s[2] \notin {"\"", "\\"} THEN NoParse
         ELSE ParseChars(Tail(Tail(s)), Append(acc, s[2]))
    ELSE ParseChars(Tail(s), Append(acc, Head(s)))

RECURSIVE ParseDigits(_, _)
ParseDigits(s, acc) ==
    IF s # <<>> /\ IsDigit(Head(s))
    THEN ParseDigits(Tail(s), 10 * acc + DigitValue(Head(s)))
    ELSE [ok |-> TRUE, val |-> acc, rest |-> s]

ParseNumber(s) ==
    LET neg == s # <<>> /\ Head(s) = "-"
        body == IF neg THEN Tail(s) ELSE s
    IN  IF body = <<>> \/ ~IsDigit(Head(body)) THEN NoParse
        ELSE LET r == ParseDigits(body, 0)
             IN  [ok |-> TRUE, val |-> IF neg THEN 0 - r.val ELSE r.val,
                  rest |-> r.rest]

Parsed(t, r) ==
    IF r.ok THEN [ok |-> TRUE, val |-> [t |-> t, v |-> r.val], rest |-> r.rest]
    ELSE NoParse

RECURSIVE ParseValue(_), ParseMembers(_, _), ParseMember(_, _, _)
ParseValue(s) ==
    IF s = <<>> THEN NoParse
    ELSE IF Head(s) = "\"" THEN Parsed("string", ParseChars(Tail(s), <<>>))
    ELSE IF Head(s) = "{"
    THEN IF Len(s) >= 2 /\ s[2] = "}"
         THEN [ok |-> TRUE, val |-> [t |-> "object", v |-> <<>>],
               rest |-> SubSeq(s, 3, Len(s))]
         ELSE ParseMembers(Tail(s), <<>>)
    ELSE Parsed("int", ParseNumber(s))

\* "key":value followed by , and further members, or by the closing brace.
ParseMembers(s, acc) ==
    IF s = <<>> \/ Head(s) # "\"" THEN NoParse
    ELSE ParseMember(ParseChars(Tail(s), <<>>), s, acc)

ParseMember(k, s, acc) ==
    IF ~k.ok \/ k.rest = <<>> \/ Head(k.rest) # ":" THEN NoParse
    ELSE LET x == ParseValue(Tail(k.rest))
         IN  IF ~x.ok \/ x.rest = <<>> THEN NoParse
             ELSE IF Head(x.rest) = "}"
             THEN [ok |-> TRUE,
                   val |-> [t |-> "object",
                            v |-> Append(acc, [key |-> k.val, value |-> x.val])],
                   rest |-> Tail(x.rest)]
             ELSE IF Head(x.rest) = ","
             THEN ParseMembers(Tail(x.rest),
                               Append(acc, [key |-> k.val, value |-> x.val]))
             ELSE NoParse

\* The value a line of text denotes; "invalid" when it is no JSON text.
Decoded(line) ==
    LET r == ParseValue(line)
    IN  IF r.ok /\ r.rest = <<>> THEN r.val ELSE [t |-> "invalid", v |-> <<>>]

\* Source has just returned two lines and a nil error.
Returned == last = "Source" /\ ret.kind = "lines"

\* Line 1 as read back.  It holds one command when it is an object with
\* one member whose value is an object: the action object.
TopLevel == Decoded(ret.lines[1])
SingleCommand(top) ==
    /\ top.t = "object"
    /\ Len(top.v) = 1
    /\ top.v[1].value.t = "object"

\* The members of the action object of line 1, <<>> when line 1 holds no
\* single command.
MembersOf(top) == IF SingleCommand(top) THEN top.v[1].value.v ELSE <<>>
ActionMembers == MembersOf(TopLevel)

HasKey(ms, k) == \E i \in 1..Len(ms) : ms[i].key = k
HasMember(ms, k, t, v) ==
    \E i \in 1..Len(ms) :
        /\ ms[i].key = k
        /\ ms[i].value.t = t
        /\ ms[i].value.v = v
NoDuplicateKeys(ms) ==
    \A i, j \in 1..Len(ms) : i # j => ms[i].key # ms[j].key

(***************************************************************************)
(* Properties                                                               *)
(***************************************************************************)

\* C1: whenever the cached lines r.source are present they are the two
\* lines a fresh computation from the current fields produces, and the
\* lines a Source call returns are those of the current fields.
C1_CacheNeverStale ==
    /\ source # <<>> =>
         /\ FreshLines.kind = "lines"
         /\ source = FreshLines.lines
    /\ Returned => ret.lines = FreshLines.lines

\* A Source call that computed its lines after setters had been called.
C1_Witness == Returned /\ calls > 0 /\ marshalCalls > 0 /\ index # <<>>

\* The key table of the encoder: key, inclusion condition, value.
KeyTable ==
    << [key |-> KIndex, included |-> index # <<>>, t |-> "string", v |-> index],
       [key |-> KType, included |-> typ # <<>>, t |-> "string", v |-> typ],
       [key |-> KId, included |-> id # <<>>, t |-> "string", v |-> id],
       [key |-> KRouting, included |-> routing # <<>>, t |-> "string", v |-> routing],
       [key |-> KParent, included |-> parent # <<>>, t |-> "string", v |-> parent],
       [key |-> KVersion, included |-> version > 0, t |-> "int", v |-> version],
       [key |-> KVersionType, included |-> versionType # <<>>, t |-> "string",
        v |-> versionType],
       [key |-> KRetryOnConflict, included |-> retryOnConflict # <<>>, t |-> "int",
        v |-> IF retryOnConflict # <<>> THEN retryOnConflict[1] ELSE 0],
       [key |-> KTtl, included |-> ttl # <<>>, t |-> "string", v |-> ttl],
       [key |-> KPipeline, included |-> pipeline # <<>>, t |-> "string",
        v |-> pipeline] >>

ExactKeys(top, ms, table) ==
    /\ SingleCommand(top)
    /\ NoDuplicateKeys(ms)
    /\ \A e \in 1..Len(table) :
           IF table[e].included
           THEN HasMember(ms, table[e].key, table[e].t, table[e].v)
           ELSE ~HasKey(ms, table[e].key)
    /\ \A i \in 1..Len(ms) :
           /\ \E e \in 1..Len(table) : table[e].key = ms[i].key
           /\ ms[i].value.t \in {"string", "int"}
           /\ ms[i].value.t = "string" => ms[i].value.v # <<>>

\* C2: the action object of line 1 of a successful Source holds exactly the
\* keys of the key table whose inclusion condition holds, each once and
\* with the current value of its field, and no null or empty placeholder.
C2_ExactKeys == Returned => ExactKeys(TopLevel, ActionMembers, KeyTable)

\* Some keys are emitted and others, among them _version for a negative
\* version, are left out.
C2_Witness ==
    /\ Returned
    /\ index = <<>> /\ id # <<>> /\ version < 0 /\ retryOnConflict = <<0>>
    /\ ttl # <<>> /\ pipeline = <<>>
    /\ Len(ActionMembers) = 3

\* The order of the keys as the claim lists it.
ClaimedOrder ==
    << KId, KIndex, KParent, KRetryOnConflict, KRouting, KTtl, KType,
       KVersion, KVersionType, KPipeline >>

Position(k) ==
    IF \E p \in 1..Len(ClaimedOrder) : ClaimedOrder[p] = k
    THEN CHOOSE p \in 1..Len(ClaimedOrder) : ClaimedOrder[p] = k
    ELSE 0

Ascending(ms) ==
    \A i \in 1..Len(ms) - 1 :
        /\ StringLess(ms[i].key, ms[i + 1].key)
        /\ 0 < Position(ms[i].key)
        /\ Position(ms[i].key) < Position(ms[i + 1].key)

\* C3: the keys of the action object stand in line 1 in strictly ascending
\* byte-lexicographic order, which is the order _id, _index, _parent,
\* _retry_on_conflict, _routing, _ttl, _type, _version, _version_type,
\* pipeline, for every subset of fields that are set.
C3_KeysAscending ==
    Returned => SingleCommand(TopLevel) /\ Ascending(ActionMembers)

\* All ten keys are emitted.
C3_Witness == Returned /\ Len(ActionMembers) = Len(ClaimedOrder)

\* C4: a Source call changes no configured field, and a Source call that
\* follows a successful Source call with no setter call in between returns
\* the same two lines, taken from the cache without a call of json.Marshal.
C4_EncodeIdempotent ==
    [][ /\ last' = "Source" => fields' = fields
        /\ (last = "Source" /\ ret.kind = "lines" /\ last' = "Source") =>
               /\ ret' = ret
               /\ source' = source
               /\ marshalCalls' = 0 ]_vars

\* The second of two Source calls, answered from the cache.
C4_Witness == Returned /\ encodes > 1 /\ marshalCalls = 0 /\ calls > 0

\* The field a setter stores into, as the pointer or value it holds.
FieldOf(s) ==
    CASE s = "Index" -> index
      [] s = "Type" -> typ
      [] s = "Id" -> id
      [] s = "OpType" -> opType
      [] s = "Routing" -> routing
      [] s = "Parent" -> parent
      [] s = "Version" -> version
      [] s = "VersionType" -> versionType
      [] s = "Doc" -> doc
      [] s = "RetryOnConflict" -> retryOnConflict
      [] s = "TTL" -> ttl
      [] s = "Pipeline" -> pipeline

\* C5: a call of a setter stores the argument in the setter's own field
\* (RetryOnConflict: a pointer to it), changes no other field, leaves the
\* cache absent whatever the old and new values are, and returns the
\* request it was called on.
C5_SetterContract ==
    [][ \A s \in Setters :
          (last' = s /\ calls' = calls + 1) =>
              /\ FieldOf(s)' = (IF s = "RetryOnConflict" THEN args'[s]
                                ELSE args'[s][1])
              /\ \A o \in Setters \ {s} : FieldOf(o)' = FieldOf(o)
              /\ source' = <<>>
              /\ ret'.kind = "request"
              /\ ret'.ref = Self ]_vars

\* Doc has been called as the second setter call, with a document.
C5_Witness ==
    /\ last = "Doc" /\ calls > 1 /\ doc = MapDoc /\ source = <<>>
    /\ ret.ref = Self

OnlyKey(top, current, argument) ==
    /\ top.t = "object"
    /\ Len(top.v) = 1
    /\ top.v[1].key = current
    /\ top.v[1].key = (IF argument = <<>> THEN OpIndex ELSE argument[1])

\* C6: line 1 of a successful Source has exactly one top-level key, the
\* current opType: "index" when OpType was never called, otherwise the
\* argument of the most recent OpType call.
C6_TopLevelKey ==
    Returned => OnlyKey(TopLevel, opType, args.OpType)

\* Encoded after OpType("create").
C6_Witness == Returned /\ args.OpType = <<OpCreate>>

\* C7 as stated: opType is a non-empty string in every reachable state.
C7_OpTypeNeverEmpty == opType # <<>>

\* C7, amended: opType is "index" until OpType is called and from then on
\* the argument of the most recent OpType call, so it is empty exactly when
\* that argument was the empty string.
C7_OpTypeIsLastArgument ==
    /\ args.OpType = <<>> => opType = OpIndex
    /\ args.OpType # <<>> => opType = args.OpType[1]
    /\ opType = <<>> <=> args.OpType = << <<>> >>

\* OpType has been called with a non-empty argument.
C7_Witness == last = "OpType" /\ opType = OpCreate

RetryKey(ms, argument) ==
    IF argument = <<>> THEN ~HasKey(ms, KRetryOnConflict)
    ELSE HasMember(ms, KRetryOnConflict, "int", argument[1])

\* C8: after RetryOnConflict(n), 0 included, line 1 holds
\* "_retry_on_conflict":n for the most recent n, and on a request on which
\* RetryOnConflict was never called line 1 has no such key.
C8_RetryOnConflictPresence ==
    Returned =>
        /\ SingleCommand(TopLevel)
        /\ RetryKey(ActionMembers, args.RetryOnConflict)

\* Encoded after RetryOnConflict(0).
C8_Witness ==
    /\ Returned /\ args.RetryOnConflict = <<0>>
    /\ HasMember(ActionMembers, KRetryOnConflict, "int", 0)

VersionKey(ms, argument) ==
    /\ HasKey(ms, KVersion) <=> version > 0
    /\ argument # <<>> =>
           IF argument[1] > 0
           THEN HasMember(ms, KVersion, "int", argument[1])
           ELSE ~HasKey(ms, KVersion)

\* C9: line 1 has the key _version iff the current version is strictly
\* positive; after Version(v) it holds "_version":v when v > 0 and no
\* _version key when v <= 0.
C9_VersionPositive ==
    Returned =>
        /\ SingleCommand(TopLevel)
        /\ VersionKey(ActionMembers, args.Version)

\* Encoded after Version(-3), the second setter call.
C9_Witness ==
    /\ Returned /\ args.Version = <<-3>> /\ calls > 1
    /\ ~HasKey(ActionMembers, KVersion)

\* C10: when the payload is unset at the time of Source (Doc never called,
\* or most recently called with nil) Source returns no error and line 2 is
\* exactly {}.
C10_EmptyPayload ==
    /\ (args.Doc = <<>> \/ args.Doc[1].t = "nil") => doc.t = "nil"
    /\ (last = "Source" /\ doc.t = "nil") =>
           /\ ret.kind = "lines"
           /\ ret.err = <<>>
           /\ Len(ret.lines) = 2
           /\ ret.lines[2] = <<"{", "}">>

\* Encoded after Doc(nil) and a metadata setter.
C10_Witness ==
    /\ last = "Source" /\ args.Doc # <<>> /\ doc.t = "nil"
    /\ args.Routing # <<>> /\ routing # <<>>

\* The raw kinds of document and the text each supplies; a pointer kind
\* supplies text only when the pointer is not nil.
RawKinds == {"RawMessage", "*RawMessage", "string", "*string"}
PointerKinds == {"*RawMessage", "*string"}
NilPointer(d) == d.t \in PointerKinds /\ d.v = <<>>
SuppliedText(d) == IF d.t \in PointerKinds THEN d.v[1] ELSE d.v

\* C11: when the payload is a raw value (json.RawMessage, *json.RawMessage,
\* string, *string) Source returns its text as line 2 exactly as supplied,
\* be it empty or no valid JSON.
C11_RawVerbatim ==
    (last = "Source" /\ doc.t \in RawKinds /\ ~NilPointer(doc)) =>
        /\ ret.kind = "lines"
        /\ Len(ret.lines) = 2
        /\ ret.lines[2] = SuppliedText(doc)

\* Encoded with a *string pointing to text that is no JSON.
C11_Witness ==
    /\ last = "Source"
    /\ doc.t = "*string" /\ doc.v = << <<"a", "\"">> >>
    /\ ret.kind = "lines" /\ ret.lines[2] = <<"a", "\"">>

\* C12 as stated: for every payload that is absent, raw bytes or a raw
\* string, in value or pointer form and a nil pointer included, Source
\* returns two lines and no error; only a structured value can make it
\* fail.
C12_OnlyStructuredFails ==
    (last = "Source" /\ doc.t \in RawKinds \cup {"nil"}) =>
        /\ ret.kind = "lines"
        /\ ret.err = <<>>
        /\ Len(ret.lines) = 2

StringResult(r, f) ==
    /\ r.kind = "string"
    /\ f.kind = "lines" => r.str = f.lines[1] \o <<"\n">> \o f.lines[2]
    /\ f.kind # "lines" => /\ Len(r.str) > 1
                           /\ r.str[1] = "error: "

\* C13 as stated: in every reachable state String returns line 1, a
\* newline and line 2 when encoding succeeds and a text starting with
\* "error: " when it fails, and never aborts.
C13_StringNeverFails == last = "String" => StringResult(ret, FreshLines)

\* A structured value and its serialization.
PolyForms == { <<MapDoc, MapText>>, <<EmptyMapDoc, EmptyObject>> }
FormsOf(f) == {f[1], RawMessageDoc(f[2]), StringDoc(f[2])}
SameContent(d, e) == \E f \in PolyForms : d \in FormsOf(f) /\ e \in FormsOf(f)

\* C14: a structured value, its serialization as raw bytes and its
\* serialization as a string give the same line 2, the serialization, and
\* replacing one of these forms of the document by another leaves both
\* lines of the encoding as they were.
C14_PayloadPolymorphism ==
    /\ [](Returned =>
            \A f \in PolyForms : doc \in FormsOf(f) => ret.lines[2] = f[2])
    /\ [][ (last' = "Doc" /\ SameContent(doc, doc')) =>
               /\ FreshLines'.kind = "lines"
               /\ FreshLines'.lines = FreshLines.lines ]_vars

\* Encoded after the document was given a second time, as a string.
C14_Witness ==
    /\ Returned /\ calls > 1 /\ last = "Source"
    /\ doc.t = "string" /\ doc.v = MapText
    /\ ret.lines[2] = MapText

\* C15: a Source call whose document cannot be serialized returns the
\* error and no lines, leaves the cache absent and every field as it was,
\* and fails again each time it is repeated; with a serializable document
\* in its place Source returns the two lines of the current fields.
C15_FailureNotMemoized ==
    /\ []((last = "Source" /\ ret.kind = "error") =>
            /\ ret.lines = <<>>
            /\ ret.err # <<>>
            /\ source = <<>>)
    /\ []((last = "Source" /\ doc.t = "chan") => ret.kind = "error")
    /\ []((last = "Source" /\ doc.t = "map") =>
            /\ ret.kind = "lines"
            /\ ret.lines = FreshLines.lines)
    /\ [][ (last' = "Source" /\ ret'.kind = "error") =>
               /\ fields' = fields
               /\ source' = source ]_vars

\* The second of two failed Source calls.
C15_Witness ==
    /\ last = "Source" /\ ret.kind = "error" /\ encodes > 1
    /\ marshalCalls > 0 /\ source = <<>>

\* The value a field has when only the most recent argument of its setter
\* counts: the value NewBulkStringRequest gives it, or that argument.
ValueFromArgs(s) ==
    IF s = "RetryOnConflict" THEN args[s]
    ELSE IF args[s] # <<>> THEN args[s][1]
    ELSE CASE s = "OpType" -> OpIndex
           [] s = "Version" -> 0
           [] s = "Doc" -> NilDoc
           [] OTHER -> <<>>

SameResult(r, f) ==
    /\ r.kind = f.kind
    /\ r.lines = f.lines
    /\ r.err = f.err

\* C16: every field holds the most recent argument of its setter (its
\* initial value when the setter was never called), and what Source returns
\* is the encoding of these fields: the result depends on nothing else of
\* the calls made before.
C16_LastWriteWins ==
    /\ \A s \in Setters : FieldOf(s) = ValueFromArgs(s)
    /\ last = "Source" => SameResult(ret, FreshLines)

\* Encoded after two setter calls.
C16_Witness ==
    /\ Returned /\ calls > 1
    /\ args.Routing = << <<"a">> >> /\ args.Version = <<12>>

\* The key each metadata setter but RetryOnConflict controls.
KeyOf(s) ==
    CASE s = "Index" -> KIndex
      [] s = "Type" -> KType
      [] s = "Id" -> KId
      [] s = "Routing" -> KRouting
      [] s = "Parent" -> KParent
      [] s = "Version" -> KVersion
      [] s = "VersionType" -> KVersionType
      [] s = "TTL" -> KTtl
      [] s = "Pipeline" -> KPipeline

Removed(s) ==
    IF s = "Version" THEN args[s] # <<>> /\ args[s][1] <= 0
    ELSE args[s] = << <<>> >>

RetryKept(ms) ==
    /\ retryOnConflict # <<>> =>
           HasMember(ms, KRetryOnConflict, "int", args.RetryOnConflict[1])
    /\ \A s \in Setters \ {"RetryOnConflict", "OpType", "Doc"} :
           Removed(s) => ~HasKey(ms, KeyOf(s))

\* C17: once RetryOnConflict has been called the field never returns to
\* the never-set state, and every later successful Source emits
\* _retry_on_conflict with the most recent argument; each other metadata
\* key is gone again after its setter was called with the empty string
\* (Version: with a value that is not positive).
C17_RetryStaysSet ==
    /\ [][retryOnConflict # <<>> => retryOnConflict' # <<>>]_vars
    /\ [](Returned => SingleCommand(TopLevel) /\ RetryKept(ActionMembers))

\* Encoded after RetryOnConflict(-1) and TTL("").
C17_Witness ==
    /\ Returned /\ calls > 1
    /\ args.RetryOnConflict = <<-1>> /\ args.TTL = << <<>> >>
    /\ HasKey(ActionMembers, KRetryOnConflict)

\* C18 as stated: whatever the caller does to a pair Source returned, a
\* Source call with no setter call in between returns the encoding of the
\* current fields.
C18_CacheIsolated == Returned => ret.lines = FreshLines.lines

====
